---- MODULE Spec2Model ----
(***************************************************************************)
(* State-machine model of the Unordered-Dense-Map repository:              *)
(*   - unordered_dense_map            (single-threaded map)                *)
(*   - concurrent_unordered_dense_map (segmented concurrent map)           *)
(* Int keys, int values, the default hash provider detail::hash_traits.    *)
(***************************************************************************)
EXTENDS Integers, Sequences, FiniteSets, TLC

(***************************************************************************)
(* Program constants                                                       *)
(***************************************************************************)
INITIAL_CAPACITY == 16
MAX_DISTANCE == 255
\* MAX_LOAD_FACTOR = 0.75f, kept as the exact fraction 3/4
MAX_LOAD_NUM == 3
MAX_LOAD_DEN == 4

(***************************************************************************)
(* Bounds of the model                                                     *)
(***************************************************************************)
\* number of operations issued on the single-threaded map
MaxOps == 5
\* length of the range handed to batch_insert (keys FirstFill, FirstFill+1, ...)
NumFill == 10
FirstFill == 40

\* keys used by single calls: 2 and 17 share the home slot 12 (capacity 16)
\* and 28 (capacity 32); 9 has home slot 13
Keys == {2, 9, 17}
\* a key whose fingerprint is 0, so that its hash is remixed: home slot 11
\* (capacity 16 and 32); inserted, erased and looked up by single calls
RemixKeys == {15}
FillKeys == FirstFill .. (FirstFill + NumFill - 1)
AllKeys == Keys \cup RemixKeys \cup FillKeys
Values == {1, 2}
\* a fill that lets a probe run reach MAX_DISTANCE: 255 keys that share the
\* home slot 100 of a table of 512 buckets, in the order they are inserted
SatFill ==
  <<1032, 2482, 2524, 2565, 2856, 2904, 3426, 3933, 4340, 4865,
    5588, 6432, 8602, 9963, 10099, 10260, 10405, 11098, 11572, 12564,
    13115, 13218, 13479, 13900, 14337, 14947, 15726, 17769, 17849, 17923,
    18720, 18733, 19501, 19677, 19936, 21738, 21837, 22348, 22632, 22738,
    22897, 23887, 25032, 25153, 25547, 25941, 25991, 27155, 27558, 28819,
    31066, 31076, 31820, 31914, 32157, 33270, 33464, 33645, 34164, 34954,
    35447, 37503, 37718, 37864, 38556, 39245, 39672, 39879, 40185, 40337,
    40859, 40883, 41100, 42828, 43069, 44345, 44347, 45012, 45314, 45663,
    46213, 46473, 46838, 48324, 48433, 51195, 51703, 53043, 53088, 53483,
    53502, 54958, 55420, 55837, 55908, 56422, 56754, 57628, 57726, 58398,
    58784, 58850, 58907, 59003, 59463, 59713, 60256, 60751, 61370, 61892,
    62162, 62561, 62566, 63067, 63333, 63754, 63926, 63997, 64079, 65189,
    65515, 66348, 67088, 67317, 67908, 68053, 69003, 69932, 70300, 71301,
    71313, 71324, 71387, 71604, 72227, 74428, 74536, 75244, 75853, 76155,
    76298, 77403, 78645, 78699, 79236, 80272, 80391, 81011, 81064, 81120,
    81647, 82046, 82925, 83050, 83497, 83529, 83680, 83699, 84371, 84878,
    84952, 85207, 85943, 86430, 86475, 86514, 87917, 88032, 88125, 88230,
    90298, 90378, 90901, 91498, 93295, 93543, 93969, 93986, 94667, 95196,
    95418, 95819, 96324, 96633, 96977, 97708, 98350, 98831, 99752, 100630,
    101073, 101164, 101800, 102878, 102920, 103811, 104111, 104832, 105439, 106060,
    106123, 107099, 109407, 109768, 110937, 110979, 111364, 111854, 112294, 112481,
    113257, 113557, 113888, 113941, 114179, 114381, 114466, 115096, 115338, 116132,
    116668, 116834, 117588, 118198, 118745, 119279, 119392, 119629, 119727, 120107,
    120182, 120580, 120870, 121272, 122433, 122802, 123292, 123362, 123428, 123700,
    124147, 124149, 124414, 124451, 125841, 126612, 126853, 127461, 128657, 128739,
    130122, 132224, 132355, 132422, 132665>>
\* two keys whose home slot is 99, the slot before the run: SatNeighbour is
\* part of the fill, SatKey is inserted afterwards by a single call
SatSingles == <<1119, 1031>>
SatKey == SatSingles[1]
SatNeighbour == SatSingles[2]
SatKeys == {SatKey, SatNeighbour, SatFill[1]}
\* Value{} of an int
DefaultValue == 0

(***************************************************************************)
(* Hash provider: detail::hash_traits<int>                                 *)
(***************************************************************************)
\* the same hash for the keys of the saturating fill (below): every key of
\* SatFill has hash % 512 = 100, SatNeighbour and SatKey have hash % 512 = 99
SatHash ==
  (1032 :> 21604) @@ (2482 :> 22116) @@ (2524 :> 23140) @@ (2565 :> 51300) @@ (2856 :> 2660) @@
  (2904 :> 61540) @@ (3426 :> 41060) @@ (3933 :> 612) @@ (4340 :> 29284) @@ (4865 :> 22628) @@
  (5588 :> 21092) @@ (6432 :> 12900) @@ (8602 :> 12388) @@ (9963 :> 59492) @@ (10099 :> 29284) @@
  (10260 :> 8292) @@ (10405 :> 47204) @@ (11098 :> 10340) @@ (11572 :> 22116) @@ (12564 :> 45156) @@
  (13115 :> 5732) @@ (13218 :> 43620) @@ (13479 :> 28772) @@ (13900 :> 33380) @@ (14337 :> 39012) @@
  (14947 :> 6244) @@ (15726 :> 61028) @@ (17769 :> 35428) @@ (17849 :> 51812) @@ (17923 :> 2660) @@
  (18720 :> 11876) @@ (18733 :> 23140) @@ (19501 :> 13924) @@ (19677 :> 51812) @@ (19936 :> 41572) @@
  (21738 :> 4708) @@ (21837 :> 24164) @@ (22348 :> 57444) @@ (22632 :> 31844) @@ (22738 :> 16484) @@
  (22897 :> 32868) @@ (23887 :> 55396) @@ (25032 :> 7268) @@ (25153 :> 28772) @@ (25547 :> 26212) @@
  (25941 :> 612) @@ (25991 :> 41572) @@ (27155 :> 5732) @@ (27558 :> 27748) @@ (28819 :> 61028) @@
  (31066 :> 18020) @@ (31076 :> 60004) @@ (31820 :> 3172) @@ (31914 :> 44644) @@ (32157 :> 39524) @@
  (33270 :> 46180) @@ (33464 :> 55908) @@ (33645 :> 42596) @@ (34164 :> 24164) @@ (34954 :> 26724) @@
  (35447 :> 49764) @@ (37503 :> 48740) @@ (37718 :> 6244) @@ (37864 :> 11876) @@ (38556 :> 21092) @@
  (39245 :> 56420) @@ (39672 :> 43620) @@ (39879 :> 61028) @@ (40185 :> 36964) @@ (40337 :> 28260) @@
  (40859 :> 33892) @@ (40883 :> 27236) @@ (41100 :> 25188) @@ (42828 :> 18532) @@ (43069 :> 43108) @@
  (44345 :> 42596) @@ (44347 :> 56420) @@ (45012 :> 58980) @@ (45314 :> 29284) @@ (45663 :> 63076) @@
  (46213 :> 56420) @@ (46473 :> 36964) @@ (46838 :> 10852) @@ (48324 :> 28772) @@ (48433 :> 100) @@
  (51195 :> 19556) @@ (51703 :> 8804) @@ (53043 :> 52324) @@ (53088 :> 53860) @@ (53483 :> 58468) @@
  (53502 :> 52836) @@ (54958 :> 50788) @@ (55420 :> 26724) @@ (55837 :> 25700) @@ (55908 :> 35428) @@
  (56422 :> 56932) @@ (56754 :> 10340) @@ (57628 :> 4708) @@ (57726 :> 47716) @@ (58398 :> 42084) @@
  (58784 :> 54372) @@ (58850 :> 58980) @@ (58907 :> 51300) @@ (59003 :> 26212) @@ (59463 :> 45156) @@
  (59713 :> 36964) @@ (60256 :> 13924) @@ (60751 :> 28772) @@ (61370 :> 11876) @@ (61892 :> 38500) @@
  (62162 :> 36964) @@ (62561 :> 40036) @@ (62566 :> 46692) @@ (63067 :> 57444) @@ (63333 :> 53348) @@
  (63754 :> 60516) @@ (63926 :> 5732) @@ (63997 :> 16484) @@ (64079 :> 51300) @@ (65189 :> 56420) @@
  (65515 :> 54372) @@ (66348 :> 6244) @@ (67088 :> 9316) @@ (67317 :> 52324) @@ (67908 :> 21604) @@
  (68053 :> 41060) @@ (69003 :> 42596) @@ (69932 :> 51300) @@ (70300 :> 19044) @@ (71301 :> 5732) @@
  (71313 :> 8804) @@ (71324 :> 46692) @@ (71387 :> 16996) @@ (71604 :> 60004) @@ (72227 :> 39012) @@
  (74428 :> 53860) @@ (74536 :> 61028) @@ (75244 :> 38500) @@ (75853 :> 11364) @@ (76155 :> 62052) @@
  (76298 :> 39012) @@ (77403 :> 62052) @@ (78645 :> 45156) @@ (78699 :> 46180) @@ (79236 :> 31332) @@
  (80272 :> 64100) @@ (80391 :> 57956) @@ (81011 :> 36452) @@ (81064 :> 14948) @@ (81120 :> 47716) @@
  (81647 :> 62564) @@ (82046 :> 49252) @@ (82925 :> 2660) @@ (83050 :> 64612) @@ (83497 :> 13924) @@
  (83529 :> 64100) @@ (83680 :> 4196) @@ (83699 :> 11364) @@ (84371 :> 56420) @@ (84878 :> 46692) @@
  (84952 :> 4708) @@ (85207 :> 46180) @@ (85943 :> 53860) @@ (86430 :> 12388) @@ (86475 :> 56420) @@
  (86514 :> 43108) @@ (87917 :> 38500) @@ (88032 :> 7780) @@ (88125 :> 60004) @@ (88230 :> 63076) @@
  (90298 :> 3684) @@ (90378 :> 22628) @@ (90901 :> 51812) @@ (91498 :> 35940) @@ (93295 :> 3172) @@
  (93543 :> 20068) @@ (93969 :> 21604) @@ (93986 :> 52324) @@ (94667 :> 37476) @@ (95196 :> 28772) @@
  (95418 :> 23140) @@ (95819 :> 48740) @@ (96324 :> 20580) @@ (96633 :> 56932) @@ (96977 :> 64612) @@
  (97708 :> 39012) @@ (98350 :> 31332) @@ (98831 :> 46692) @@ (99752 :> 17508) @@ (100630 :> 33380) @@
  (101073 :> 40036) @@ (101164 :> 44644) @@ (101800 :> 20580) @@ (102878 :> 60516) @@ (102920 :> 61028) @@
  (103811 :> 61028) @@ (104111 :> 41572) @@ (104832 :> 37988) @@ (105439 :> 19044) @@ (106060 :> 55908) @@
  (106123 :> 65124) @@ (107099 :> 39524) @@ (109407 :> 64612) @@ (109768 :> 32868) @@ (110937 :> 20068) @@
  (110979 :> 28772) @@ (111364 :> 1124) @@ (111854 :> 42596) @@ (112294 :> 28772) @@ (112481 :> 65124) @@
  (113257 :> 12900) @@ (113557 :> 41060) @@ (113888 :> 53860) @@ (113941 :> 15972) @@ (114179 :> 30308) @@
  (114381 :> 65124) @@ (114466 :> 31844) @@ (115096 :> 4196) @@ (115338 :> 10852) @@ (116132 :> 29284) @@
  (116668 :> 28772) @@ (116834 :> 15972) @@ (117588 :> 44644) @@ (118198 :> 23140) @@ (118745 :> 45668) @@
  (119279 :> 55908) @@ (119392 :> 49764) @@ (119629 :> 5732) @@ (119727 :> 15460) @@ (120107 :> 48228) @@
  (120182 :> 63076) @@ (120580 :> 15460) @@ (120870 :> 59492) @@ (121272 :> 55908) @@ (122433 :> 49764) @@
  (122802 :> 6756) @@ (123292 :> 41572) @@ (123362 :> 47204) @@ (123428 :> 62564) @@ (123700 :> 1124) @@
  (124147 :> 2148) @@ (124149 :> 51812) @@ (124414 :> 35428) @@ (124451 :> 612) @@ (125841 :> 41572) @@
  (126612 :> 44132) @@ (126853 :> 21092) @@ (127461 :> 60004) @@ (128657 :> 5220) @@ (128739 :> 18020) @@
  (130122 :> 52324) @@ (132224 :> 57444) @@ (132355 :> 1636) @@ (132422 :> 24676) @@ (132665 :> 57444) @@
  (1031 :> 41571) @@ (1119 :> 38499)

\* WyHash::hash(&key, sizeof(int)) reduced mod 2^16, computed by the source
\* function for each key of the model.  Every capacity of the model is a
\* power of two below 2^16 and SEGMENT_COUNT is 64, so hash % capacity,
\* hash % SEGMENT_COUNT and hash & 0xFF only depend on these bits.
WyHash ==
  ( 0 :> 0) @@ (2 :> 16092) @@ (9 :> 51853) @@ (15 :> 60416) @@
  (17 :> 31868) @@ (24 :> 16428) @@
  (40 :> 33802) @@ (41 :> 39496) @@ (42 :> 28805) @@ (43 :> 64195) @@
  (44 :> 27905) @@ (45 :> 15167) @@ (46 :> 45437) @@ (47 :> 35771) @@
  (48 :> 38392) @@ (49 :> 23606) @@ (50 :> 43636) @@ (51 :> 27826) @@
  (52 :> 44784) @@ (55 :> 15785) @@ (56 :> 34791) @@ (60 :> 56126) @@
  (76 :> 24348) @@ SatHash

\* a Hash parameter of the map that gives every key one hash: an int key
\* above SameBase stands for a key of unordered_dense_map<int, int, SameHash>
SameBase == 200000

SameHashValue == 100

hash(key) == IF key > SameBase THEN SameHashValue ELSE WyHash[key]

fingerprint(key) == hash(key) % 256

\* detail::mix_hash applied to the hash of a key (SIMD build), mod 2^16;
\* only keys whose fingerprint is 0 are ever remixed
mix_hash(key) ==
  CASE key = 0 -> 5067
    [] key = 15 -> 7851
    [] OTHER -> hash(key)

(***************************************************************************)
(* detail::Bucket                                                          *)
(***************************************************************************)
Bucket == [fingerprint |-> 0, distance |-> 0, occupied |-> FALSE,
           tombstone |-> FALSE, entry_index |-> 0]

is_empty(b) == ~b.occupied /\ ~b.tombstone
is_tombstone(b) == ~b.occupied /\ b.tombstone
is_occupied(b) == b.occupied

\* a set_occupied that does not record the probe distance
set_occupied_home(b, fp, dist, idx) ==
  [fingerprint |-> fp % 256, distance |-> 0, occupied |-> TRUE,
   tombstone |-> FALSE, entry_index |-> idx]

\* fp and dist are uint8_t parameters
set_occupied(b, fp, dist, idx) ==
  [fingerprint |-> fp % 256, distance |-> dist % 256, occupied |-> TRUE,
   tombstone |-> FALSE, entry_index |-> idx]

\* an erase that clears the bucket (Bucket::clear) instead of marking it
set_tombstone_clear(b) == Bucket

set_tombstone(b) == [b EXCEPT !.occupied = FALSE, !.tombstone = TRUE]

Entry(k, v) == [key |-> k, value |-> v]

(***************************************************************************)
(* unordered_dense_map: a map value is the record of its four members.     *)
(* entries_ is a 0-based vector: entries_[i] is m.entries[i + 1].          *)
(***************************************************************************)
NewBuckets(capacity) == [i \in 0 .. capacity - 1 |-> Bucket]

EmptyMap ==
  [buckets |-> NewBuckets(INITIAL_CAPACITY), entries |-> << >>,
   size |-> 0, capacity |-> INITIAL_CAPACITY]

\* a load check that lets the map fill to one element above the bound
LoadExceededStrict(size, capacity) == MAX_LOAD_DEN * size > MAX_LOAD_NUM * capacity

\* size_ >= capacity_ * MAX_LOAD_FACTOR
LoadExceeded(size, capacity) == MAX_LOAD_DEN * size >= MAX_LOAD_NUM * capacity

\* hash after the remix of a zero fingerprint; the fingerprint itself is
\* recomputed from the key, not from the remixed hash
probe_hash(key) == IF fingerprint(key) = 0 THEN mix_hash(key) ELSE hash(key)

\* call by value: the argument is evaluated once, then handed to Op
Bind(v, Op(_)) == CHOOSE r \in {Op(x) : x \in {v}} : TRUE

RECURSIVE insert_iterate(_, _)
RECURSIVE try_emplace(_, _, _)
RECURSIVE reinsert(_, _, _, _)

\* one iteration of the while loop of try_emplace on the locals st; done is
\* set by a return inside the loop
insert_step(st) ==
  LET m == st.m
      bucket == m.buckets[st.current_pos]
      next_pos == (st.current_pos + 1) % m.capacity
      entry_index == bucket.entry_index
      advance == [st EXCEPT !.current_pos = next_pos, !.distance = @ + 1]
  IN
  IF is_empty(bucket) \/ is_tombstone(bucket)
  THEN LET entry_idx == Len(m.entries) IN
       [st EXCEPT !.done = TRUE,
                  !.m = [m EXCEPT !.buckets[st.current_pos] =
                                      set_occupied(bucket, st.fp, st.distance,
                                                   entry_idx),
                                  !.entries = Append(@, Entry(st.kcopy, st.vcopy)),
                                  !.size = @ + 1],
                  !.index = entry_idx, !.inserted = TRUE]
  ELSE IF bucket.fingerprint = st.fp /\ entry_index >= Len(m.entries)
  THEN advance
  ELSE IF bucket.fingerprint = st.fp /\ m.entries[entry_index + 1].key = st.kcopy
  THEN [st EXCEPT !.done = TRUE, !.index = entry_index, !.inserted = FALSE]
  ELSE IF bucket.distance < st.distance
  THEN IF entry_index >= Len(m.entries)
       THEN advance
       ELSE LET old == m.entries[entry_index + 1] IN
            [st EXCEPT !.m = [m EXCEPT !.entries[entry_index + 1] =
                                           Entry(st.kcopy, st.vcopy),
                                       !.buckets[st.current_pos].fingerprint = st.fp,
                                       !.buckets[st.current_pos].distance =
                                           st.distance % 256],
                       !.current_pos = next_pos,
                       !.distance = bucket.distance + 1,
                       !.fp = bucket.fingerprint,
                       !.kcopy = old.key, !.vcopy = old.value]
  ELSE advance

\* at most n iterations of the loop from st: it stops at a return or when
\* distance reaches MAX_DISTANCE; the iterations are evaluated as a first
\* half followed by a second half
insert_iterate(st, n) ==
  IF st.done \/ st.distance >= MAX_DISTANCE \/ n = 0 THEN st
  ELSE IF n = 1 THEN insert_step(st)
  ELSE Bind(insert_iterate(st, n \div 2),
            LAMBDA half : insert_iterate(half, n - (n \div 2)))

\* the while loop of try_emplace; done = FALSE when distance reached
\* MAX_DISTANCE without a return.  The loop makes fewer than capacity_
\* iterations: every iteration moves to the next bucket, and a table whose
\* size_ is below capacity_ has a bucket that is not occupied.
insert_probe(m, current_pos, distance, fp, kcopy, vcopy) ==
  Bind(insert_iterate([done |-> FALSE, m |-> m, index |-> 0, inserted |-> FALSE,
                       current_pos |-> current_pos, distance |-> distance,
                       fp |-> fp, kcopy |-> kcopy, vcopy |-> vcopy],
                      m.capacity),
       LAMBDA st : [done |-> st.done, m |-> st.m, index |-> st.index,
                    inserted |-> st.inserted])

\* the loop of rehash: emplace of old_entries[i .. old_size - 1], in order;
\* the stretch is evaluated as its first half followed by its second half
reinsert(m, old_entries, i, old_size) ==
  IF i >= old_size THEN m
  ELSE IF i + 1 = old_size
  THEN try_emplace(m, old_entries[i + 1].key, old_entries[i + 1].value).m
  ELSE Bind(reinsert(m, old_entries, i, (i + old_size) \div 2),
            LAMBDA n : reinsert(n, old_entries, (i + old_size) \div 2, old_size))

\* a rehash that forgets the first entry of the old store
rehash_skip_first(m, new_capacity) ==
  Bind([buckets |-> NewBuckets(new_capacity), entries |-> << >>,
        size |-> 0, capacity |-> new_capacity],
       LAMBDA cleared : reinsert(cleared, m.entries, 1, m.size))

\* a rehash that sizes the bucket array at twice the capacity it records
rehash_wide(m, new_capacity) ==
  Bind([buckets |-> NewBuckets(new_capacity * 2), entries |-> << >>,
        size |-> 0, capacity |-> new_capacity],
       LAMBDA cleared : reinsert(cleared, m.entries, 0, m.size))

rehash(m, new_capacity) ==
  Bind([buckets |-> NewBuckets(new_capacity), entries |-> << >>,
        size |-> 0, capacity |-> new_capacity],
       LAMBDA cleared : reinsert(cleared, m.entries, 0, m.size))

\* constructed counts the Value objects built from the arguments of the call
\* (vcopy, once per invocation, before the probe loop is entered)
try_emplace(m, key, value) ==
  Bind(IF LoadExceeded(m.size, m.capacity)
       THEN rehash(m, m.capacity * 2) ELSE m,
       LAMBDA m1 :
         Bind(insert_probe(m1, probe_hash(key) % m1.capacity, 0,
                           fingerprint(key), key, value),
              LAMBDA r :
                IF r.done
                THEN [done |-> TRUE, m |-> r.m, index |-> r.index,
                      inserted |-> r.inserted, constructed |-> 1]
                ELSE Bind(rehash(r.m, r.m.capacity * 2),
                          LAMBDA m2 :
                            Bind(try_emplace(m2, key, value),
                                 LAMBDA again :
                                   [again EXCEPT !.constructed = @ + 1]))))

\* insert(key, value) and emplace(key, value) forward to try_emplace
emplace(m, key, value) == try_emplace(m, key, value)

\* one iteration of the while loop of find on the locals st; done is set
\* by a return inside the loop, index is the entry index returned
find_step(m, key, st) ==
  LET bucket == m.buckets[st.current_pos]
      advance == [st EXCEPT !.current_pos = (@ + 1) % m.capacity,
                            !.distance = @ + 1]
  IN
  IF is_empty(bucket) THEN [st EXCEPT !.done = TRUE, !.index = m.size]
  ELSE IF is_tombstone(bucket) THEN advance
  ELSE IF bucket.fingerprint = fingerprint(key)
          /\ bucket.entry_index < Len(m.entries)
          /\ m.entries[bucket.entry_index + 1].key = key
       THEN [st EXCEPT !.done = TRUE, !.index = bucket.entry_index]
  ELSE advance

\* at most n iterations of the loop from st, evaluated as a first half
\* followed by a second half
RECURSIVE find_iterate(_, _, _, _)
find_iterate(m, key, st, n) ==
  IF st.done \/ st.distance >= MAX_DISTANCE \/ n = 0 THEN st
  ELSE IF n = 1 THEN find_step(m, key, st)
  ELSE Bind(find_iterate(m, key, st, n \div 2),
            LAMBDA half : find_iterate(m, key, half, n - (n \div 2)))

\* the while loop of find; the result is an entry index, end() is m.size.
\* distance grows by one in every iteration, so MAX_DISTANCE bounds them.
find_probe(m, key, current_pos, distance) ==
  Bind(find_iterate(m, key, [done |-> FALSE, index |-> m.size,
                             current_pos |-> current_pos,
                             distance |-> distance], MAX_DISTANCE),
       LAMBDA st : st.index)

find(m, key) == find_probe(m, key, probe_hash(key) % m.capacity, 0)

end(m) == m.size
contains(m, key) == find(m, key) # end(m)

\* an at that hands out a default value on a miss instead of throwing
at_no_throw(m, key) ==
  LET it == find(m, key) IN
  IF it = end(m) THEN [thrown |-> FALSE, value |-> DefaultValue]
  ELSE [thrown |-> FALSE, value |-> m.entries[it + 1].value]

\* at(key): thrown is the std::out_of_range, value is it->value
at(m, key) ==
  LET it == find(m, key) IN
  IF it = end(m) THEN [thrown |-> TRUE, value |-> 0]
  ELSE [thrown |-> FALSE, value |-> m.entries[it + 1].value]

begin(m) == 0

\* for (it = begin(); it != end(); ++it): the entries *it from index on;
\* operator* reads entries_[index_]
RECURSIVE iterate(_, _)
iterate(m, index) ==
  IF index = end(m) THEN << >>
  ELSE <<m.entries[index + 1]>> \o iterate(m, index + 1)

\* the fix-up scan of erase: first occupied bucket whose entry_index is the
\* last entry
\* an erase that leaves the bucket of the moved entry as it was
fixup_scan_none(m, i, entry_index) == m.buckets

RECURSIVE fixup_scan(_, _, _)
fixup_scan(m, i, entry_index) ==
  IF i >= m.capacity THEN m.buckets
  ELSE IF is_occupied(m.buckets[i]) /\ m.buckets[i].entry_index = m.size - 1
       THEN [m.buckets EXCEPT ![i].entry_index = entry_index]
       ELSE fixup_scan(m, i + 1, entry_index)

RECURSIVE erase_probe(_, _, _, _)
\* an erase that forgets to move the last entry into the gap
erase_probe_no_move(m, key, current_pos, distance) ==
  IF distance >= MAX_DISTANCE THEN [m |-> m, removed |-> 0]
  ELSE
    LET bucket == m.buckets[current_pos]
        next_pos == (current_pos + 1) % m.capacity
        entry_index == bucket.entry_index
    IN
    IF is_empty(bucket) THEN [m |-> m, removed |-> 0]
    ELSE IF is_tombstone(bucket) THEN erase_probe(m, key, next_pos, distance + 1)
    ELSE IF bucket.fingerprint = fingerprint(key)
            /\ entry_index < Len(m.entries)
            /\ m.entries[entry_index + 1].key = key
         THEN [m |-> [m EXCEPT
                        !.buckets[current_pos] = set_tombstone(@),
                        !.entries = SubSeq(@, 1, Len(@) - 1),
                        !.size = @ - 1],
               removed |-> 1]
    ELSE erase_probe(m, key, next_pos, distance + 1)

erase_probe(m, key, current_pos, distance) ==
  IF distance >= MAX_DISTANCE THEN [m |-> m, removed |-> 0]
  ELSE
    LET bucket == m.buckets[current_pos]
        next_pos == (current_pos + 1) % m.capacity
        entry_index == bucket.entry_index
    IN
    IF is_empty(bucket) THEN [m |-> m, removed |-> 0]
    ELSE IF is_tombstone(bucket) THEN erase_probe(m, key, next_pos, distance + 1)
    ELSE IF bucket.fingerprint = fingerprint(key)
            /\ entry_index < Len(m.entries)
            /\ m.entries[entry_index + 1].key = key
         THEN LET moved ==
                    IF entry_index # m.size - 1
                    THEN [m EXCEPT !.entries[entry_index + 1] = m.entries[m.size],
                                   !.buckets = fixup_scan(m, 0, entry_index)]
                    ELSE m
              IN [m |-> [moved EXCEPT
                            !.buckets[current_pos] = set_tombstone(@),
                            !.entries = SubSeq(@, 1, Len(@) - 1),
                            !.size = @ - 1],
                  removed |-> 1]
    ELSE erase_probe(m, key, next_pos, distance + 1)

\* an erase that marks the home bucket of the key deleted even on a miss
erase_marks_miss(m, key) ==
  LET home == probe_hash(key) % m.capacity
      r == erase_probe(m, key, home, 0)
  IN IF r.removed = 1 THEN r
     ELSE [m |-> [m EXCEPT !.buckets[home] = set_tombstone(@)], removed |-> 0]

erase(m, key) == erase_probe(m, key, probe_hash(key) % m.capacity, 0)

\* a clear that leaves the bucket metadata as it was
clear_keep_buckets(m) == [m EXCEPT !.entries = << >>, !.size = 0]

clear(m) ==
  [m EXCEPT !.buckets = NewBuckets(m.capacity), !.entries = << >>, !.size = 0]

empty(m) == m.size = 0

\* operator[] followed by the assignment of value through the returned
\* reference: map[key] = value
index_assign(m, key, value) ==
  Bind(try_emplace(m, key, DefaultValue),
       LAMBDA r : [r EXCEPT !.m.entries[r.index + 1].value = value])

\* batch_insert(first, last) over a range of (key, value) pairs
\* the insertion loop over range[i .. j], in order; the stretch is evaluated
\* as its first half followed by its second half
RECURSIVE insert_span(_, _, _, _)
insert_span(m, range, i, j) ==
  IF i > j THEN [m |-> m, constructed |-> 0]
  ELSE IF i = j
  THEN Bind(emplace(m, range[i][1], range[i][2]),
            LAMBDA r : [m |-> r.m, constructed |-> r.constructed])
  ELSE Bind(insert_span(m, range, i, (i + j) \div 2),
            LAMBDA r :
              Bind(insert_span(r.m, range, ((i + j) \div 2) + 1, j),
                   LAMBDA rest :
                     [rest EXCEPT !.constructed = @ + r.constructed]))

insert_range(m, range, i) == insert_span(m, range, i, Len(range))

\* ranges shorter than this take the first insertion loop of batch_insert
BATCH_THRESHOLD == 16

RECURSIVE reserve_capacity(_, _, _)
reserve_capacity(size, count, new_capacity) ==
  IF LoadExceeded(size + count, new_capacity)
  THEN reserve_capacity(size, count, new_capacity * 2)
  ELSE new_capacity

batch_insert(m, range) ==
  LET count == Len(range) IN
  Bind(IF LoadExceeded(m.size + count, m.capacity)
       THEN rehash(m, reserve_capacity(m.size, count, m.capacity))
       ELSE m,
       LAMBDA m1 :
         IF count < BATCH_THRESHOLD
         THEN insert_range(m1, range, 1)
         ELSE insert_range(m1, range, 1))

(***************************************************************************)
(* concurrent_unordered_dense_map: constants and bounds                    *)
(***************************************************************************)
SEGMENT_COUNT == 64

\* number of threads and number of calls they make altogether
NumThreads == 2
MaxCalls == 3
\* number of probe steps a loop may take because of a read outside the
\* arrays or a spurious failure of compare_exchange_weak
MaxDetour == 1

Threads == 1 .. NumThreads
\* 2 and 76 route to the same segment (28) and share every home slot of a
\* power-of-two capacity up to 16
CKeys == {2, 76}
CValues == {1}

(***************************************************************************)
(* AtomicBucket, Entry, Segment                                            *)
(***************************************************************************)
\* the packed 64-bit word, kept as the record of its fields; fingerprint and
\* distance are uint8_t parameters
pack(fp, dist, occupied, tombstone, entry_index) ==
  [fingerprint |-> fp % 256, distance |-> dist % 256,
   occupied |-> occupied, tombstone |-> tombstone, entry_index |-> entry_index]

\* data{0}
AtomicBucket == pack(0, 0, FALSE, FALSE, 0)

\* an element of new Entry[n]: valid{true}, key and value not initialised
\* (init = FALSE: a read of key or value may yield anything)
NewEntry == [key |-> 0, value |-> 0, valid |-> TRUE, init |-> FALSE]

WrittenEntry(key, value, valid) ==
  [key |-> key, value |-> value, valid |-> valid, init |-> TRUE]

NewSegmentBuckets(capacity) == [i \in 0 .. capacity - 1 |-> AtomicBucket]
NewSegmentEntries(capacity) == [i \in 0 .. capacity - 1 |-> NewEntry]

\* the state of a constructed Segment; mutex is the shared_mutex: the set of
\* threads holding it shared and the thread holding it exclusively (0: none)
Segment ==
  LET capacity == INITIAL_CAPACITY \div SEGMENT_COUNT IN
  [size |-> 0, capacity |-> capacity,
   buckets |-> NewSegmentBuckets(capacity),
   entries |-> NewSegmentEntries(capacity),
   entries_capacity |-> capacity,
   mutex |-> [shared |-> {}, exclusive |-> 0]]

get_segment_index(key) == hash(key) % SEGMENT_COUNT

\* the segments the keys of the model route to; the others stay as built
SegmentIds == {get_segment_index(k) : k \in CKeys}

(***************************************************************************)
(* Undefined behaviour.  x % 0 either traps (the process dies) or yields    *)
(* the dividend.  An access outside an array either faults (the process    *)
(* dies) or hits foreign memory: a read yields some word, a write is lost   *)
(* to the model.                                                           *)
(***************************************************************************)
ModValues(x, capacity) == IF capacity = 0 THEN {x} ELSE {x % capacity}

\* foreign words: an empty one, a tombstone, and occupied ones that carry
\* the fingerprint of a key of the model
WildWords ==
  {AtomicBucket, pack(0, 0, FALSE, TRUE, 0)}
    \cup {pack(fingerprint(k), 0, TRUE, FALSE, 0) : k \in CKeys}

WildEntries ==
  {WrittenEntry(k, v, valid) : k \in CKeys, v \in CValues, valid \in BOOLEAN}

InBuckets(seg, pos) == pos \in DOMAIN seg.buckets
InEntries(seg, idx) == idx \in DOMAIN seg.entries

\* the words a load of buckets[pos] may yield
BucketWords(seg, pos) ==
  IF InBuckets(seg, pos) THEN {seg.buckets[pos]} ELSE WildWords

\* the values a read of entries[idx] may yield
EntryValues(seg, idx) ==
  IF ~InEntries(seg, idx) THEN WildEntries
  ELSE IF seg.entries[idx].init THEN {seg.entries[idx]}
  ELSE {WrittenEntry(k, v, seg.entries[idx].valid) : k \in CKeys, v \in CValues}

\* a store to buckets[pos] / entries[idx]; lost when outside the array
StoreBucket(seg, pos, word) ==
  IF InBuckets(seg, pos) THEN [seg EXCEPT !.buckets[pos] = word] ELSE seg

StoreEntry(seg, idx, entry) ==
  IF InEntries(seg, idx) THEN [seg EXCEPT !.entries[idx] = entry] ELSE seg

StoreValid(seg, idx, valid) ==
  IF InEntries(seg, idx) THEN [seg EXCEPT !.entries[idx].valid = valid] ELSE seg

(***************************************************************************)
(* resize_segment                                                          *)
(***************************************************************************)
RECURSIVE resize_copy(_, _, _, _)
\* the copy loop of resize_segment from old index i on: the set of possible
\* [entries, size] results
resize_copy(seg, i, new_entries, new_size) ==
  IF i >= seg.size THEN {[entries |-> new_entries, size |-> new_size]}
  ELSE UNION {
         IF e.valid
         THEN resize_copy(seg, i + 1,
                          IF new_size \in DOMAIN new_entries
                          THEN [new_entries EXCEPT ![new_size] =
                                  WrittenEntry(e.key, e.value, TRUE)]
                          ELSE new_entries,
                          new_size + 1)
         ELSE resize_copy(seg, i + 1, new_entries, new_size)
         : e \in EntryValues(seg, i)}

\* the segments resize_segment may leave behind; the new buckets are all
\* zero words and entries_capacity is not touched
resize_segment(seg) ==
  LET old_capacity == seg.capacity
      new_capacity == old_capacity * 2
  IN {[seg EXCEPT !.buckets = NewSegmentBuckets(new_capacity),
                  !.entries = o.entries,
                  !.capacity = new_capacity,
                  !.size = o.size]
      : o \in resize_copy(seg, 0, NewSegmentEntries(new_capacity), 0)}

\* resize_segment reads or writes outside an array
resize_out_of_bounds(seg) ==
  \/ \E i \in 0 .. seg.size - 1 : ~InEntries(seg, i)
  \/ \E n \in resize_segment(seg) : n.size > n.capacity

(***************************************************************************)
(* State: the single-threaded map with its driver, and the concurrent map  *)
(* with its threads                                                        *)
(***************************************************************************)
VARIABLES buckets_, entries_, size_, capacity_, last, nops, fresh,
          constructed,
          segments_, total_size_, threads, log, crashed

svars == <<buckets_, entries_, size_, capacity_, last, nops, fresh, constructed>>
cvars == <<segments_, total_size_, threads, log, crashed>>
vars == <<svars, cvars>>

\* the map as a value
Map == [buckets |-> buckets_, entries |-> entries_,
        size |-> size_, capacity |-> capacity_]

SetMap(m) ==
  /\ buckets_' = m.buckets
  /\ entries_' = m.entries
  /\ size_' = m.size
  /\ capacity_' = m.capacity

\* constructed: the number of Value objects the last call built from the
\* arguments it was given

\* the last call: its name, arguments and results
Call(op, key, value, flag, index) ==
  [op |-> op, key |-> key, value |-> value, flag |-> flag, index |-> index]

\* fresh: contents written so far while the map has only seen inserts of keys that
\* were not inserted before (ok); frozen once any other call is made
NoHistory == [ok |-> FALSE, written |-> << >>]

FillRange == [i \in 1 .. NumFill |-> <<FirstFill + i - 1, 1>>]

\* a range that reaches the threshold of batch_insert: the keys of FillRange
\* over again, the second time with another value
LongRange ==
  [i \in 1 .. BATCH_THRESHOLD |->
     <<FirstFill + ((i - 1) % NumFill), 1 + ((i - 1) \div NumFill)>>]

Ranges == {FillRange, LongRange}

RangeKeys(range) == {range[i][1] : i \in 1 .. Len(range)}

\* a thread between two calls
Idle ==
  [pc |-> "idle", op |-> "none", key |-> 0, value |-> 0, capacity |-> 0,
   current_pos |-> 0, distance |-> 0, entry_idx |-> 0,
   bucket_data |-> AtomicBucket, expected |-> AtomicBucket]

Init ==
  /\ segments_ = [s \in SegmentIds |-> Segment]
  /\ total_size_ = 0
  /\ threads = [t \in Threads |-> Idle]
  /\ log = << >>
  /\ crashed = FALSE
  /\ buckets_ = EmptyMap.buckets
  /\ entries_ = EmptyMap.entries
  /\ size_ = EmptyMap.size
  /\ capacity_ = EmptyMap.capacity
  /\ last = Call("new", 0, 0, FALSE, 0)
  /\ nops = 0
  /\ fresh = [ok |-> TRUE, written |-> << >>]
  /\ constructed = 0

WrittenKeys == {fresh.written[i][1] : i \in 1 .. Len(fresh.written)}

Insert(key, value) ==
  /\ nops < MaxOps
  /\ \E r \in {emplace(Map, key, value)} :
       /\ SetMap(r.m)
       /\ last' = Call("insert", key, value, r.inserted, r.index)
       /\ constructed' = r.constructed
  /\ nops' = nops + 1
  /\ UNCHANGED cvars
  /\ fresh' = IF fresh.ok /\ key \notin WrittenKeys
              THEN [fresh EXCEPT !.written = Append(@, <<key, value>>)]
              ELSE NoHistory

Index(key, value) ==
  /\ nops < MaxOps
  /\ \E r \in {index_assign(Map, key, value)} :
       /\ SetMap(r.m)
       /\ last' = Call("index", key, value, r.inserted, r.index)
       /\ constructed' = r.constructed
  /\ nops' = nops + 1
  /\ UNCHANGED cvars
  /\ fresh' = NoHistory

Erase(key) ==
  /\ nops < MaxOps
  /\ \E r \in {erase(Map, key)} :
       /\ SetMap(r.m)
       /\ last' = Call("erase", key, 0, r.removed = 1, 0)
  /\ constructed' = 0
  /\ nops' = nops + 1
  /\ UNCHANGED cvars
  /\ fresh' = NoHistory

Clear ==
  /\ nops < MaxOps
  /\ SetMap(clear(Map))
  /\ last' = Call("clear", 0, 0, FALSE, 0)
  /\ constructed' = 0
  /\ nops' = nops + 1
  /\ UNCHANGED cvars
  /\ fresh' = NoHistory

\* batch_insert(first, last): index is the length of the range
BatchInsert(range) ==
  /\ nops < MaxOps
  /\ \E r \in {batch_insert(Map, range)} :
       /\ SetMap(r.m)
       /\ constructed' = r.constructed
  /\ last' = Call("batch_insert", 0, 0, FALSE, Len(range))
  /\ nops' = nops + 1
  /\ UNCHANGED cvars
  /\ fresh' = IF /\ fresh.ok
                 /\ Cardinality(RangeKeys(range)) = Len(range)
                 /\ RangeKeys(range) \cap WrittenKeys = {}
              THEN [fresh EXCEPT !.written = @ \o range]
              ELSE NoHistory

\* at(key): flag is "threw std::out_of_range", value is the value returned
At(key) ==
  /\ nops < MaxOps
  /\ \E r \in {at(Map, key)} : last' = Call("at", key, r.value, r.thrown, 0)
  /\ nops' = nops + 1
  /\ constructed' = 0
  /\ UNCHANGED <<buckets_, entries_, size_, capacity_, fresh>>
  /\ UNCHANGED cvars

\* find(key): flag is "the result is not end()", index is the index_ of the
\* iterator returned
Find(key) ==
  /\ nops < MaxOps
  /\ \E it \in {find(Map, key)} : last' = Call("find", key, 0, it # end(Map), it)
  /\ nops' = nops + 1
  /\ constructed' = 0
  /\ UNCHANGED <<buckets_, entries_, size_, capacity_, fresh>>
  /\ UNCHANGED cvars

Next ==
  \/ \E key \in Keys \cup RemixKeys, value \in Values : Insert(key, value)
  \/ \E key \in Keys, value \in Values : Index(key, value)
  \/ \E key \in Keys \cup RemixKeys : Erase(key)
  \/ Clear
  \/ \E range \in Ranges : BatchInsert(range)
  \/ \E key \in Keys : At(key)
  \/ \E key \in Keys \cup RemixKeys : Find(key)

Spec == Init /\ [][Next]_vars

\* the range of the saturating fill: the keys of SatFill, then SatNeighbour
SatRange ==
  [i \in 1 .. Len(SatFill) + 1 |->
     <<IF i <= Len(SatFill) THEN SatFill[i] ELSE SatNeighbour, 1>>]

\* a driver that fills a new map with SatRange by one batch_insert and then
\* makes single calls on the keys at the head of the run
NextSat ==
  \/ last.op = "new" /\ BatchInsert(SatRange)
  \/ last.op # "new" /\ \E key \in SatKeys, value \in Values : Insert(key, value)
  \/ last.op # "new" /\ \E key \in SatKeys : Find(key)

SpecSat == Init /\ [][NextSat]_vars

(***************************************************************************)
(* Threads of the concurrent map.  pc is the position of a thread in the   *)
(* call it is running; the other fields are the locals of that call.       *)
(***************************************************************************)
\* the segment a thread is working on
SegOf(t) == get_segment_index(threads[t].key)

Event(kind, t, op, key, flag, count) ==
  [kind |-> kind, t |-> t, op |-> op, key |-> key, flag |-> flag,
   count |-> count, visited |-> << >>]

\* the process dies
Crash ==
  /\ crashed' = TRUE
  /\ UNCHANGED <<segments_, total_size_, threads, log>>

\* thread t moves on with locals th, leaving its segment as seg
Step(t, th, seg, total) ==
  /\ threads' = [threads EXCEPT ![t] = th]
  /\ segments_' = [segments_ EXCEPT ![SegOf(t)] = seg]
  /\ total_size_' = total
  /\ UNCHANGED <<log, crashed>>

\* the call of thread t returns flag, leaving its segment as seg
Return(t, flag, seg, total) ==
  /\ threads' = [threads EXCEPT ![t] = Idle]
  /\ log' = Append(log, Event("ret", t, threads[t].op, threads[t].key, flag, 0))
  /\ segments_' = [segments_ EXCEPT ![SegOf(t)] = seg]
  /\ total_size_' = total
  /\ UNCHANGED crashed

\* release of a shared_lock held by t
Unlocked(seg, t) == [seg EXCEPT !.mutex.shared = @ \ {t}]

\* current_pos = (current_pos + 1) % capacity; ++distance, by a thread
\* whose locals are th
AdvanceWith(t, th, next_pc, seg) ==
  /\ InBuckets(seg, th.current_pos) \/ th.distance < MaxDetour
  /\ \/ th.capacity = 0 /\ Crash
     \/ \E p \in ModValues(th.current_pos + 1, th.capacity) :
          Step(t, [th EXCEPT !.current_pos = p, !.distance = @ + 1,
                             !.pc = next_pc], seg, total_size_)

Advance(t, next_pc, seg) == AdvanceWith(t, threads[t], next_pc, seg)

\* the calls made so far
Calls == {i \in DOMAIN log : log[i].kind = "call"}

CanCall(t) == ~crashed /\ threads[t].pc = "idle" /\ Cardinality(Calls) < MaxCalls

Invoke(t, op, key, value, pc) ==
  /\ threads' = [threads EXCEPT ![t].pc = pc, ![t].op = op, ![t].key = key,
                                ![t].value = value]
  /\ log' = Append(log, Event("call", t, op, key, FALSE, 0))
  /\ UNCHANGED <<segments_, total_size_, crashed>>

CallInsert(t) ==
  /\ CanCall(t)
  /\ \E key \in CKeys, value \in CValues : Invoke(t, "insert", key, value, "insert_lock")
  /\ UNCHANGED svars

CallErase(t) ==
  /\ CanCall(t)
  /\ \E key \in CKeys : Invoke(t, "erase", key, 0, "erase_lock")
  /\ UNCHANGED svars

\* contains(key) is find(key) != end(), without any lock
CallContains(t) ==
  /\ CanCall(t)
  /\ \E key \in CKeys : Invoke(t, "contains", key, 0, "find")
  /\ UNCHANGED svars

\* size(): one load of total_size_
CallSize(t) ==
  /\ CanCall(t)
  /\ log' = log \o <<Event("call", t, "size", 0, FALSE, 0),
                     Event("ret", t, "size", 0, FALSE, total_size_)>>
  /\ UNCHANGED <<segments_, total_size_, threads, crashed, svars>>

\* segment->size.load() of segment s; a segment no key of the model routes
\* to stays as built
SegmentSize(segs, s) == IF s \in DOMAIN segs THEN segs[s].size ELSE 0

RECURSIVE find_next_valid(_, _, _, _)
\* the loop of find_next_valid, with the dereference of each iterator it
\* stops at and the ++ that follows: the sequences of keys a walk from
\* (segment_idx, entry_idx) to end() = (SEGMENT_COUNT, 0) may visit
find_next_valid(segs, segment_idx, entry_idx, visited) ==
  IF segment_idx >= SEGMENT_COUNT THEN {visited}
  ELSE IF entry_idx < SegmentSize(segs, segment_idx)
  THEN UNION {
         IF e.valid
         THEN find_next_valid(segs, segment_idx, entry_idx + 1,
                              Append(visited, e.key))
         ELSE find_next_valid(segs, segment_idx, entry_idx + 1, visited)
         : e \in EntryValues(segs[segment_idx], entry_idx)}
  ELSE find_next_valid(segs, segment_idx + 1, 0, visited)

\* for (it = begin(); it != end(); ++it) visit it->first
iterate_segments(segs) ==
  IF SegmentSize(segs, 0) = 0
  THEN find_next_valid(segs, 0, 1, << >>)
  ELSE UNION {
         IF e.valid THEN find_next_valid(segs, 0, 1, <<e.key>>)
         ELSE find_next_valid(segs, 0, 1, << >>)
         : e \in EntryValues(segs[0], 0)}

\* the walk reads outside an entry array
iterate_out_of_bounds(segs) ==
  \E s \in DOMAIN segs : \E i \in 0 .. segs[s].size - 1 : ~InEntries(segs[s], i)

\* a walk from begin() to end() while no other call is in flight
CallIterate(t) ==
  /\ CanCall(t)
  /\ \A u \in Threads : threads[u].pc = "idle"
  /\ \/ iterate_out_of_bounds(segments_) /\ Crash
     \/ /\ \E visited \in iterate_segments(segments_) :
             log' = log \o <<Event("call", t, "iterate", 0, FALSE, 0),
                             [Event("ret", t, "iterate", 0, FALSE, 0)
                                EXCEPT !.visited = visited]>>
        /\ UNCHANGED <<segments_, total_size_, threads, crashed>>
  /\ UNCHANGED svars

\* std::shared_lock lock(segment->mutex) of insert and erase, and the
\* re-acquisition after the resize in insert
LockShared(t) ==
  LET th == threads[t]
      seg == segments_[SegOf(t)]
  IN
  /\ ~crashed
  /\ th.pc \in {"insert_lock", "erase_lock", "insert_relock"}
  /\ seg.mutex.exclusive = 0
  /\ Step(t, [th EXCEPT !.pc = IF th.pc = "insert_relock"
                                THEN "insert_in_segment" ELSE "find"],
          [seg EXCEPT !.mutex.shared = @ \cup {t}], total_size_)
  /\ UNCHANGED svars

\* find: capacity = segment->capacity.load(); ideal_pos = hash % capacity
FindBegin(t) ==
  LET th == threads[t]
      seg == segments_[SegOf(t)]
  IN
  /\ ~crashed
  /\ th.pc = "find"
  /\ \/ seg.capacity = 0 /\ Crash
     \/ \E p \in ModValues(hash(th.key), seg.capacity) :
          Step(t, [th EXCEPT !.pc = "find_loop", !.capacity = seg.capacity,
                             !.current_pos = p, !.distance = 0],
               seg, total_size_)
  /\ UNCHANGED svars

\* what the caller of find does with the result
FindReturn(t, found, idx) ==
  LET th == [threads[t] EXCEPT !.capacity = 0, !.current_pos = 0, !.distance = 0]
      seg == segments_[SegOf(t)]
  IN
  CASE th.op = "contains" -> Return(t, found, seg, total_size_)
    [] th.op = "insert" ->
         IF found THEN Return(t, FALSE, Unlocked(seg, t), total_size_)
         ELSE Step(t, [th EXCEPT !.pc = "insert_check"], seg, total_size_)
    [] th.op = "erase" ->
         IF found
         THEN Step(t, [th EXCEPT !.pc = "erase_invalidate", !.entry_idx = idx],
                   seg, total_size_)
         ELSE Return(t, FALSE, Unlocked(seg, t), total_size_)

\* one iteration of the while loop of find
FindLoop(t) ==
  LET th == threads[t]
      seg == segments_[SegOf(t)]
  IN
  /\ ~crashed
  /\ th.pc = "find_loop"
  /\ IF th.distance >= MAX_DISTANCE THEN FindReturn(t, FALSE, 0)
     ELSE \/ ~InBuckets(seg, th.current_pos) /\ Crash
          \/ \E bucket_data \in BucketWords(seg, th.current_pos) :
               IF is_empty(bucket_data) THEN FindReturn(t, FALSE, 0)
               ELSE IF is_tombstone(bucket_data) THEN Advance(t, "find_loop", seg)
               ELSE IF /\ bucket_data.fingerprint = fingerprint(th.key)
                       /\ bucket_data.entry_index < seg.size
               THEN \/ ~InEntries(seg, bucket_data.entry_index) /\ Crash
                    \/ \E e \in EntryValues(seg, bucket_data.entry_index) :
                         IF e.valid /\ e.key = th.key
                         THEN FindReturn(t, TRUE, bucket_data.entry_index)
                         ELSE Advance(t, "find_loop", seg)
               ELSE Advance(t, "find_loop", seg)
  /\ UNCHANGED svars

\* insert: the load-factor check after find
InsertCheck(t) ==
  LET th == threads[t]
      seg == segments_[SegOf(t)]
  IN
  /\ ~crashed
  /\ th.pc = "insert_check"
  /\ IF LoadExceeded(seg.size, seg.capacity)
     THEN Step(t, [th EXCEPT !.pc = "insert_exclusive"], Unlocked(seg, t), total_size_)
     ELSE Step(t, [th EXCEPT !.pc = "insert_in_segment"], seg, total_size_)
  /\ UNCHANGED svars

\* std::unique_lock exclusive_lock(segment->mutex)
LockExclusive(t) ==
  LET th == threads[t]
      seg == segments_[SegOf(t)]
  IN
  /\ ~crashed
  /\ th.pc = "insert_exclusive"
  /\ seg.mutex.exclusive = 0 /\ seg.mutex.shared = {}
  /\ Step(t, [th EXCEPT !.pc = "insert_resize"],
          [seg EXCEPT !.mutex.exclusive = t], total_size_)
  /\ UNCHANGED svars

\* the double check, resize_segment and exclusive_lock.unlock()
ResizeSegment(t) ==
  LET th == threads[t]
      seg == segments_[SegOf(t)]
  IN
  /\ ~crashed
  /\ th.pc = "insert_resize"
  /\ IF LoadExceeded(seg.size, seg.capacity)
     THEN \/ resize_out_of_bounds(seg) /\ Crash
          \/ \E resized \in resize_segment(seg) :
               Step(t, [th EXCEPT !.pc = "insert_relock"],
                    [resized EXCEPT !.mutex.exclusive = 0], total_size_)
     ELSE Step(t, [th EXCEPT !.pc = "insert_relock"],
               [seg EXCEPT !.mutex.exclusive = 0], total_size_)
  /\ UNCHANGED svars

\* insert_in_segment: capacity = segment.capacity.load();
\* ideal_pos = hash % capacity
InsertBegin(t) ==
  LET th == threads[t]
      seg == segments_[SegOf(t)]
  IN
  /\ ~crashed
  /\ th.pc = "insert_in_segment"
  /\ \/ seg.capacity = 0 /\ Crash
     \/ \E p \in ModValues(hash(th.key), seg.capacity) :
          Step(t, [th EXCEPT !.pc = "insert_loop", !.capacity = seg.capacity,
                             !.current_pos = p, !.distance = 0],
               seg, total_size_)
  /\ UNCHANGED svars

\* one iteration of the while loop of insert_in_segment up to
\* entry_idx = segment.size.fetch_add(1)
InsertLoop(t) ==
  LET th == threads[t]
      seg == segments_[SegOf(t)]
  IN
  /\ ~crashed
  /\ th.pc = "insert_loop"
  /\ IF th.distance >= MAX_DISTANCE
     THEN Return(t, FALSE, Unlocked(seg, t), total_size_)
     ELSE \/ ~InBuckets(seg, th.current_pos) /\ Crash
          \/ \E bucket_data \in BucketWords(seg, th.current_pos) :
               IF is_empty(bucket_data) \/ is_tombstone(bucket_data)
               THEN Step(t, [th EXCEPT !.pc = "insert_entry", !.entry_idx = seg.size,
                                       !.bucket_data = bucket_data],
                         [seg EXCEPT !.size = @ + 1], total_size_)
               ELSE Advance(t, "insert_loop", seg)
  /\ UNCHANGED svars

\* the write of entries[entry_idx] and expected = bucket->data.load(), a
\* second load of the word that unpack() gave bucket_data
InsertEntry(t) ==
  LET th == threads[t]
      seg == segments_[SegOf(t)]
  IN
  /\ ~crashed
  /\ th.pc = "insert_entry"
  /\ \/ (~InEntries(seg, th.entry_idx) \/ ~InBuckets(seg, th.current_pos)) /\ Crash
     \/ \E expected \in BucketWords(seg, th.current_pos) :
          Step(t, [th EXCEPT !.pc = "insert_cas", !.expected = expected],
               StoreEntry(seg, th.entry_idx, WrittenEntry(th.key, th.value, TRUE)),
               total_size_)
  /\ UNCHANGED svars

\* bucket->compare_exchange_weak(expected, new_bucket_data) and what
\* follows; bucket_data and expected go out of scope with the iteration
InsertCas(t) ==
  LET th == threads[t]
      seg == segments_[SegOf(t)]
      new_bucket_data == pack(fingerprint(th.key), th.distance, TRUE, FALSE, th.entry_idx)
      success == Return(t, TRUE,
                        Unlocked(StoreBucket(seg, th.current_pos, new_bucket_data), t),
                        total_size_ + 1)
      failure == \/ ~InEntries(seg, th.entry_idx) /\ Crash
                 \/ AdvanceWith(t, [th EXCEPT !.bucket_data = AtomicBucket,
                                               !.expected = AtomicBucket],
                                "insert_loop",
                                StoreValid([seg EXCEPT !.size = @ - 1], th.entry_idx, FALSE))
  IN
  /\ ~crashed
  /\ th.pc = "insert_cas"
  /\ IF InBuckets(seg, th.current_pos)
     THEN IF seg.buckets[th.current_pos] = th.expected
          THEN success \/ (th.distance < MaxDetour /\ failure)
          ELSE failure
     ELSE Crash \/ success \/ failure
  /\ UNCHANGED svars

\* erase: entries[it.entry_idx_].valid.store(false), then
\* capacity = segment->capacity.load(); ideal_pos = hash % capacity
EraseInvalidate(t) ==
  LET th == threads[t]
      seg == segments_[SegOf(t)]
  IN
  /\ ~crashed
  /\ th.pc = "erase_invalidate"
  /\ \/ (~InEntries(seg, th.entry_idx) \/ seg.capacity = 0) /\ Crash
     \/ \E p \in ModValues(hash(th.key), seg.capacity) :
          Step(t, [th EXCEPT !.pc = "erase_loop", !.capacity = seg.capacity,
                             !.current_pos = p, !.distance = 0],
               StoreValid(seg, th.entry_idx, FALSE), total_size_)
  /\ UNCHANGED svars

\* one iteration of the while loop of erase up to the match; when the loop
\* runs out, total_size_.fetch_sub(1) and return true
EraseLoop(t) ==
  LET th == threads[t]
      seg == segments_[SegOf(t)]
  IN
  /\ ~crashed
  /\ th.pc = "erase_loop"
  /\ IF th.distance >= MAX_DISTANCE
     THEN Return(t, TRUE, Unlocked(seg, t), total_size_ - 1)
     ELSE \/ ~InBuckets(seg, th.current_pos) /\ Crash
          \/ \E bucket_data \in BucketWords(seg, th.current_pos) :
               IF /\ is_occupied(bucket_data)
                  /\ bucket_data.fingerprint = fingerprint(th.key)
                  /\ bucket_data.entry_index = th.entry_idx
               THEN Step(t, [th EXCEPT !.pc = "erase_cas", !.bucket_data = bucket_data],
                         seg, total_size_)
               ELSE Advance(t, "erase_loop", seg)
  /\ UNCHANGED svars

\* expected = bucket->data.load(); compare_exchange_weak(expected,
\* tombstone_data) with its result ignored; total_size_.fetch_sub(1).
\* total_size_ is a size_t: a negative value v stands for 2^64 + v.
EraseCas(t) ==
  LET th == threads[t]
      seg == segments_[SegOf(t)]
      tombstone_data == pack(fingerprint(th.key), th.bucket_data.distance, FALSE, TRUE,
                             th.bucket_data.entry_index)
  IN
  /\ ~crashed
  /\ th.pc = "erase_cas"
  /\ \/ ~InBuckets(seg, th.current_pos) /\ Crash
     \/ \E after \in {seg, StoreBucket(seg, th.current_pos, tombstone_data)} :
          Return(t, TRUE, Unlocked(after, t), total_size_ - 1)
  /\ UNCHANGED svars

NextC ==
  \E t \in Threads :
    \/ CallInsert(t)
    \/ CallErase(t)
    \/ CallContains(t)
    \/ CallSize(t)
    \/ CallIterate(t)
    \/ LockShared(t)
    \/ FindBegin(t)
    \/ FindLoop(t)
    \/ InsertCheck(t)
    \/ LockExclusive(t)
    \/ ResizeSegment(t)
    \/ InsertBegin(t)
    \/ InsertLoop(t)
    \/ InsertEntry(t)
    \/ InsertCas(t)
    \/ EraseInvalidate(t)
    \/ EraseLoop(t)
    \/ EraseCas(t)

SpecC == Init /\ [][NextC]_vars

\* the steps thread t takes inside a call it has made
Run(t) ==
  \/ LockShared(t)
  \/ FindBegin(t)
  \/ FindLoop(t)
  \/ InsertCheck(t)
  \/ LockExclusive(t)
  \/ ResizeSegment(t)
  \/ InsertBegin(t)
  \/ InsertLoop(t)
  \/ InsertEntry(t)
  \/ InsertCas(t)
  \/ EraseInvalidate(t)
  \/ EraseLoop(t)
  \/ EraseCas(t)

\* fair scheduling: a thread that can take a step inside its call is not
\* held back for ever; whether and when a thread makes a call is up to it
SpecCFair == SpecC /\ \A t \in Threads : WF_vars(Run(t))

\* the value stored under key, as a sequence: << >> on a miss, <<v>> on a hit
lookup(m, key) ==
  IF contains(m, key) THEN <<m.entries[find(m, key) + 1].value>> ELSE << >>

\* a count that counts the entries holding the key
count_entries(m, key) ==
  Cardinality({i \in 1 .. Len(m.entries) : m.entries[i].key = key})

count(m, key) == IF find(m, key) # end(m) THEN 1 ELSE 0

(***************************************************************************)
(* Properties of the single-threaded map                                   *)
(***************************************************************************)
\* C1 (round trip): after a sequence of inserts with pairwise distinct keys
\* on an empty map, single calls and batch_insert alike, find succeeds for
\* every inserted key and yields the value inserted with it.
RoundTrip ==
  fresh.ok =>
    \A i \in 1 .. Len(fresh.written) :
      lookup(Map, fresh.written[i][1]) = <<fresh.written[i][2]>>

\* a distinct-key history that crossed a rehash and in which a Robin-Hood
\* swap moved an entry away from its insertion position
RoundTripWitness ==
  /\ fresh.ok
  /\ capacity_ > INITIAL_CAPACITY
  /\ \E i \in 1 .. Len(fresh.written) : entries_[i].key # fresh.written[i][1]
  /\ \E i \in 1 .. Len(fresh.written) : fresh.written[i][2] = 2

\* C2 (duplicate detection): an insert of a key that is in the map returns
\* inserted = false and leaves every stored value and size() unchanged.
DuplicateDetection ==
  [][(last'.op = "insert" /\ contains(Map, last'.key)) =>
       /\ ~last'.flag
       /\ size_' = size_
       /\ \A k \in AllKeys : lookup(Map', k) = lookup(Map, k)]_vars

\* C3 (key uniqueness): no two entries of the entry store hold equal keys.
KeyUniqueness ==
  \A i, j \in 1 .. Len(entries_) :
    i # j => entries_[i].key # entries_[j].key

\* C4 (erase correctness): when erase(k) returns 1, contains(k) is false
\* afterwards, size() went down by one and every other key keeps its value.
EraseCorrectness ==
  [][(last'.op = "erase" /\ last'.flag) =>
       /\ ~contains(Map', last'.key)
       /\ size_' = size_ - 1
       /\ \A k \in AllKeys \ {last'.key} : lookup(Map', k) = lookup(Map, k)]_vars

\* C5 (operator[]): the reference returned by map[k] is the value slot of
\* the entry of k: after map[k] = v, find(k) yields v, size() grew by one on
\* a miss and not at all on a hit, and no other key changed its value.
IndexReference ==
  [][last'.op = "index" =>
       /\ entries_'[last'.index + 1].key = last'.key
       /\ lookup(Map', last'.key) = <<last'.value>>
       /\ size_' = size_ + (IF contains(Map, last'.key) THEN 0 ELSE 1)
       /\ \A k \in AllKeys \ {last'.key} : lookup(Map', k) = lookup(Map, k)]_vars

\* C6 (returned handle): insert(k, v) returns inserted = true iff k was
\* absent before the call, and the handle designates the entry of k.
ReturnedHandle ==
  [][last'.op = "insert" =>
       /\ last'.flag <=> ~contains(Map, last'.key)
       /\ entries_'[last'.index + 1].key = last'.key]_vars

\* C10 (resize preservation): a call that changes the capacity starts with
\* rehash(new capacity) of the map it was called on; that rehash keeps
\* size() and the value found under every key.
ResizePreservation ==
  [][capacity_' # capacity_ =>
       \E rehashed \in {rehash(Map, capacity_')} :
         /\ rehashed.size = size_
         /\ \A k \in AllKeys : lookup(rehashed, k) = lookup(Map, k)]_vars

(***************************************************************************)
(* Properties of the concurrent map, stated on the log of calls            *)
(***************************************************************************)
Rets == {j \in DOMAIN log : log[j].kind = "ret"}

\* the call event a return event answers
CallOf(j) ==
  CHOOSE i \in Calls :
    /\ i < j
    /\ log[i].t = log[j].t
    /\ \A m \in (i + 1) .. (j - 1) : log[m].t # log[j].t

Quiescent == \A t \in Threads : threads[t].pc = "idle"

\* the reference set of keys: the state after a call
RefNext(present, e) ==
  CASE e.op = "insert" -> present \cup {e.key}
    [] e.op = "erase" -> present \ {e.key}
    [] OTHER -> present

\* the reference set of keys: is the result of a call the reference result
RefAgrees(present, e) ==
  CASE e.op = "insert" -> e.flag = (e.key \notin present)
    [] e.op = "erase" -> e.flag = (e.key \in present)
    [] e.op = "contains" -> e.flag = (e.key \in present)
    [] e.op = "iterate" ->
         /\ Len(e.visited) = Cardinality(present)
         /\ {e.visited[i] : i \in 1 .. Len(e.visited)} = present
    [] OTHER -> e.count = Cardinality(present)

RECURSIVE Replay(_, _, _)
\* the returns order[n ..] all agree with the reference set
Replay(order, n, present) ==
  IF n > Len(order) THEN TRUE
  ELSE /\ RefAgrees(present, log[order[n]])
       /\ Replay(order, n + 1, RefNext(present, log[order[n]]))

\* the total orders of the completed calls that keep the order of calls
\* that did not overlap
Orders ==
  {order \in [1 .. Cardinality(Rets) -> Rets] :
     /\ \A p, q \in DOMAIN order : p # q => order[p] # order[q]
     /\ \A p, q \in DOMAIN order : order[q] < CallOf(order[p]) => q < p}

\* the completed calls returned what some sequential order of them returns
Linearizable == \E order \in Orders : Replay(order, 1, {})

InsertCalls == {i \in Calls : log[i].op = "insert"}

DistinctInserts ==
  /\ \A i \in Calls : log[i].op # "erase"
  /\ \A i, j \in InsertCalls : i # j => log[i].key # log[j].key

\* C7 (parallel distinct-key inserts): when the threads insert pairwise
\* distinct keys, no call crashes, every insert returns true, a contains(k)
\* called after insert(k) returned is true, and a size() called when the
\* inserts made so far have all returned is their number.
ParallelDistinctInserts ==
  /\ ~crashed
  /\ DistinctInserts =>
       \A j \in Rets :
         /\ log[j].op = "insert" => log[j].flag
         /\ (/\ log[j].op = "contains"
             /\ \E r \in Rets : /\ r < CallOf(j)
                                /\ log[r].op = "insert"
                                /\ log[r].key = log[j].key)
              => log[j].flag
         /\ (/\ log[j].op = "size"
             /\ \A i \in InsertCalls :
                  i < j => \E r \in Rets : r < j /\ CallOf(r) = i)
              => log[j].count = Cardinality({i \in InsertCalls : i < j})

\* C8 (per-key linearizability): when all calls are insert, erase and
\* contains of one key and all have returned, no call crashed and the
\* results are those of some sequential order of the calls.
PerKeyLinearizable ==
  /\ ~crashed
  /\ (/\ Quiescent
      /\ \E k \in CKeys :
           \A i \in DOMAIN log : log[i].op # "size" /\ log[i].key = k)
       => Linearizable

\* C9 (sequential behaviour): when all calls come from one thread, no call
\* crashes and every call returns what the reference set of keys returns.
SequentialBehaviour ==
  /\ ~crashed
  /\ (\A i, j \in DOMAIN log : log[i].t = log[j].t) => Linearizable

\* the bucket metadata of seg references every entry below size
MetadataComplete(seg) ==
  \A i \in 0 .. seg.size - 1 :
    \E pos \in DOMAIN seg.buckets :
      is_occupied(seg.buckets[pos]) /\ seg.buckets[pos].entry_index = i

\* C11 (resize preservation, concurrent map): when resize_segment has run
\* on a segment, the bucket metadata of the segment references each entry
\* it kept, so that the keys of the segment are still found.
ResizeRebuildsMetadata ==
  [][\A t \in Threads :
       (/\ threads[t].pc = "insert_resize"
        /\ threads'[t].pc = "insert_relock"
        /\ LoadExceeded(segments_[SegOf(t)].size, segments_[SegOf(t)].capacity))
         => MetadataComplete(segments_'[SegOf(t)])]_vars

\* C12 (dense packing): the entry store has exactly size() elements,
\* iteration from begin() to end() visits exactly size() entries, and the
\* keys it visits are the keys k for which contains(k) is true.
DensePacking ==
  /\ Len(entries_) = size_
  /\ \E visited \in {iterate(Map, begin(Map))} :
       /\ Len(visited) = size_
       /\ {visited[i].key : i \in 1 .. Len(visited)}
            = {k \in AllKeys : contains(Map, k)}

\* an erase has just moved the last entry into the gap it made: the
\* tombstone of the erased key still names an entry slot that is in use
DensePackingWitness ==
  /\ last.op = "erase" /\ last.flag
  /\ size_ >= 2
  /\ \E pos \in DOMAIN buckets_ :
       /\ is_tombstone(buckets_[pos])
       /\ buckets_[pos].fingerprint = fingerprint(last.key)
       /\ buckets_[pos].entry_index < size_

\* C13 (load factor bound): after every insert and operator[] call,
\* size() <= 0.75 * capacity, and a call that adds an element to a map
\* which it would take above the bound doubles the capacity.
LoadFactorBound ==
  [][last'.op \in {"insert", "index"} =>
       /\ MAX_LOAD_DEN * size_' <= MAX_LOAD_NUM * capacity_'
       /\ (last'.flag /\ MAX_LOAD_DEN * (size_ + 1) > MAX_LOAD_NUM * capacity_)
            => capacity_' = 2 * capacity_]_vars

\* a batch_insert filled the empty map below the bound, single inserts took
\* it to the bound, and the last insert doubled the capacity
LoadFactorBoundWitness ==
  /\ fresh.ok
  /\ last.op = "insert" /\ last.flag
  /\ fresh.written[1][1] \in FillKeys
  /\ capacity_ = 2 * INITIAL_CAPACITY
  /\ MAX_LOAD_DEN * (size_ - 1) = MAX_LOAD_NUM * INITIAL_CAPACITY

\* the calls of op that returned true
Succeeded(op) == {j \in Rets : log[j].op = op /\ log[j].flag}

\* C14 (concurrent size consistency): once all calls have returned, size()
\* is the number of inserts that returned true minus the number of erases
\* that returned true.  size() is a size_t: a negative total_size_ stands
\* for a value of at least 2^63, which is no such difference.
SizeConsistency ==
  Quiescent =>
    /\ total_size_ >= 0
    /\ total_size_ = Cardinality(Succeeded("insert")) - Cardinality(Succeeded("erase"))

\* C15 (clear): after clear() size() is 0, empty() is true, no key is
\* contained, every bucket is EMPTY and the capacity is what it was (at
\* least INITIAL_CAPACITY); a second clear() changes nothing, and an insert
\* of any key succeeds afterwards.
ClearResets ==
  [][last'.op = "clear" =>
       /\ size_' = 0
       /\ empty(Map')
       /\ \A k \in AllKeys : ~contains(Map', k)
       /\ \A pos \in DOMAIN buckets_' : is_empty(buckets_'[pos])
       /\ capacity_' = capacity_
       /\ capacity_' >= INITIAL_CAPACITY
       /\ clear(Map') = Map'
       /\ \A k \in Keys, v \in Values :
            \E r \in {emplace(Map', k, v)} :
              r.inserted /\ lookup(r.m, k) = <<v>>]_vars

\* clear() has run on a map that had grown
ClearResetsWitness ==
  /\ last.op = "clear"
  /\ capacity_ = 2 * INITIAL_CAPACITY
  /\ size_ = 0

\* key occurs in the entry store with value
Stored(key, value) ==
  \E i \in 1 .. Len(entries_) : entries_[i] = Entry(key, value)

\* C16 (at): at(k) of a key that is not in the entry store throws; at(k) of
\* a key that is in it returns a value stored under k; either way buckets,
\* entry store, size and capacity are left as they were.
AtContract ==
  [][last'.op = "at" =>
       /\ Map' = Map
       /\ IF \E v \in Values \cup {DefaultValue} : Stored(last'.key, v)
          THEN ~last'.flag /\ Stored(last'.key, last'.value)
          ELSE last'.flag]_vars

\* at(k) has thrown for a key that was erased from a map that still holds
\* other keys
AtContractWitness ==
  /\ last.op = "at" /\ last.flag
  /\ size_ > 0
  /\ \E pos \in DOMAIN buckets_ :
       /\ is_tombstone(buckets_[pos])
       /\ buckets_[pos].fingerprint = fingerprint(last.key)

\* C17 (erase of an absent key): erase(k) of a key that is not in the entry
\* store, the empty map included, returns 0 and leaves buckets, entry store,
\* size and capacity as they were.
EraseAbsent ==
  [][(/\ last'.op = "erase"
      /\ ~\E v \in Values \cup {DefaultValue} : Stored(last'.key, v))
       => ~last'.flag /\ Map' = Map]_vars

\* erase(k) has returned 0 for a key that was erased before, in a map that
\* holds other keys and the tombstone of k
EraseAbsentWitness ==
  /\ last.op = "erase" /\ ~last.flag
  /\ size_ > 0
  /\ \E pos \in DOMAIN buckets_ :
       /\ is_tombstone(buckets_[pos])
       /\ buckets_[pos].fingerprint = fingerprint(last.key)

\* C18 (lookup is read-only): find(k) leaves buckets, entry store, size and
\* capacity as they were, and so do contains(k) and count(k), which only
\* call it; in every state and for every key, contains(k) holds exactly
\* when count(k) = 1 and exactly when find(k) is not end(), and count(k) is
\* 0 or 1.
LookupReadOnly ==
  /\ [](\A k \in AllKeys :
          /\ count(Map, k) \in {0, 1}
          /\ contains(Map, k) <=> count(Map, k) = 1
          /\ contains(Map, k) <=> find(Map, k) # end(Map))
  /\ [][last'.op = "find" =>
          /\ Map' = Map
          /\ last'.flag <=> contains(Map', last'.key)
          /\ last'.flag <=> count(Map', last'.key) = 1]_vars

\* find(k) has returned the entry of k in a map with a deleted bucket
LookupReadOnlyWitness ==
  /\ last.op = "find" /\ last.flag
  /\ last.index < size_
  /\ entries_[last.index + 1].key = last.key
  /\ \E pos \in DOMAIN buckets_ : is_tombstone(buckets_[pos])

\* C19 (try_emplace is lazy): a call of try_emplace (reached through insert
\* and emplace) with a key that is already in the entry store constructs no
\* value from its arguments; a value is constructed only by a call that
\* inserts.
TryEmplaceLazy ==
  [][last'.op = "insert" =>
       /\ (\E v \in Values \cup {DefaultValue} : Stored(last'.key, v))
            => constructed' = 0
       /\ constructed' > 0 => last'.flag]_vars

\* C20 (batch_insert equivalence): batch_insert of a range, shorter than the
\* 16-element threshold or not, leaves the same key to value contents and
\* the same size as insert called on each element of the range in order;
\* it first grows the capacity, by no more doublings than needed, until
\* size + |range| is below 0.75 * capacity, so that no insert of the range
\* grows the table again.
BatchInsertEquivalence ==
  [][last'.op = "batch_insert" =>
       \E range \in Ranges :
         /\ Len(range) = last'.index
         /\ \E each \in {insert_range(Map, range, 1).m} :
              /\ size_' = each.size
              /\ \A k \in AllKeys : lookup(Map', k) = lookup(each, k)
         /\ MAX_LOAD_DEN * (size_ + Len(range)) < MAX_LOAD_NUM * capacity_'
         /\ capacity_' >= capacity_
         /\ capacity_' > capacity_
              => MAX_LOAD_DEN * (size_ + Len(range))
                   >= MAX_LOAD_NUM * (capacity_' \div 2)]_vars

\* no insert or erase is in flight or called from the call of the earlier
\* to the return of the later of the completed calls that returned at i, j
NoUpdateBetween(i, j) ==
  \A m \in DOMAIN log :
    log[m].op \in {"insert", "erase"} =>
      \/ m < CallOf(i) /\ m < CallOf(j)
      \/ m > i /\ m > j

\* C21 (iteration of the concurrent map at quiescence): no call crashes,
\* a walk from begin() to end() made while no insert or erase is in flight
\* visits no key twice, and it visits a key exactly when a contains of that
\* key, made with no insert or erase between the two, returns true.
QuiescentIteration ==
  /\ ~crashed
  /\ \A j \in Rets :
       log[j].op = "iterate" =>
         /\ \A p, q \in 1 .. Len(log[j].visited) :
              p # q => log[j].visited[p] # log[j].visited[q]
         /\ \A c \in Rets :
              (log[c].op = "contains" /\ NoUpdateBetween(c, j))
                => (log[c].flag <=>
                      \E p \in 1 .. Len(log[j].visited) :
                        log[j].visited[p] = log[c].key)

\* C22 (insert publishes by a CAS against the word it observed): when the
\* compare-exchange of insert_in_segment succeeds, the word it expected in
\* the slot is the empty or tombstone word the thread saw when it chose the
\* slot, so that a slot made OCCUPIED in the meantime is not overwritten;
\* when it fails, the thread evaluates the same slot again.
CasAgainstObserved ==
  [][\A t \in Threads :
       threads[t].pc = "insert_cas" =>
         /\ (threads'[t].pc = "idle" /\ total_size_' = total_size_ + 1)
              => /\ threads[t].expected = threads[t].bucket_data
                 /\ ~is_occupied(threads[t].expected)
         /\ threads'[t].pc = "insert_loop"
              => threads'[t].current_pos = threads[t].current_pos]_vars

\* the positions at which a thread reads or writes the bucket array or the
\* entry array of its segment
AccessPcs ==
  {"find_loop", "insert_loop", "insert_entry", "insert_cas",
   "erase_invalidate", "erase_loop", "erase_cas"}

\* C23 (resize exclusion): a thread that is about to run resize_segment
\* holds the exclusive lock of the segment, and no other thread is then
\* reading or writing the arrays of that segment, be it in insert, in erase
\* or in a find or contains called from outside.
ResizeExclusion ==
  \A t \in Threads :
    threads[t].pc = "insert_resize" =>
      /\ segments_[SegOf(t)].mutex.exclusive = t
      /\ \A u \in Threads \ {t} :
           ~(threads[u].pc \in AccessPcs /\ SegOf(u) = SegOf(t))

\* C24 (positive segment capacity): no call crashes on its home-slot
\* computation; in every state, the freshly constructed map included, each
\* segment has capacity >= 1 and bucket and entry arrays of that many
\* slots; and a resize_segment that runs leaves a larger capacity.
PositiveCapacity ==
  /\ [](/\ ~crashed
        /\ \A s \in SegmentIds :
             /\ segments_[s].capacity >= 1
             /\ Cardinality(DOMAIN segments_[s].buckets) = segments_[s].capacity
             /\ Cardinality(DOMAIN segments_[s].entries) = segments_[s].capacity)
  /\ [][\A t \in Threads :
          (/\ threads[t].pc = "insert_resize"
           /\ threads'[t].pc = "insert_relock"
           /\ LoadExceeded(segments_[SegOf(t)].size, segments_[SegOf(t)].capacity))
            => segments_'[SegOf(t)].capacity > segments_[SegOf(t)].capacity]_vars

\* C25 (entry-array bounds): the entry index a thread got from
\* size.fetch_add in insert_in_segment, and the entry index erase got from
\* find, is below entries_capacity and inside the entry array of the
\* segment when the thread accesses the array with it.
EntryBounds ==
  \A t \in Threads :
    threads[t].pc \in {"insert_entry", "erase_invalidate"} =>
      /\ threads[t].entry_idx < segments_[SegOf(t)].entries_capacity
      /\ InEntries(segments_[SegOf(t)], threads[t].entry_idx)

\* the positions between size.fetch_add and the compare-exchange of
\* insert_in_segment: the thread writes, or has written, entries[entry_idx]
ReservedPcs == {"insert_entry", "insert_cas"}

\* C26 (entry-slot ownership): no two OCCUPIED buckets of a segment carry
\* the same entry index, and no two inserts hold the same entry slot of a
\* segment at the same time, so that the slot one of them publishes is not
\* written by the other; this also when an insert has given its
\* reservation back by size.fetch_sub.
EntrySlotOwnership ==
  /\ \A s \in SegmentIds :
       \A p, q \in DOMAIN segments_[s].buckets :
         (/\ p # q
          /\ is_occupied(segments_[s].buckets[p])
          /\ is_occupied(segments_[s].buckets[q]))
           => segments_[s].buckets[p].entry_index # segments_[s].buckets[q].entry_index
  /\ \A t, u \in Threads :
       (/\ t # u
        /\ threads[t].pc \in ReservedPcs
        /\ threads[u].pc \in ReservedPcs
        /\ SegOf(t) = SegOf(u))
         => threads[t].entry_idx # threads[u].entry_idx

\* the keys for which a contains, called after every insert and erase made
\* so far had returned, has returned flag
Answered(flag) ==
  {log[c].key :
     c \in {r \in Rets :
              /\ log[r].op = "contains"
              /\ log[r].flag = flag
              /\ \A m \in DOMAIN log :
                   log[m].op \in {"insert", "erase"} => m < CallOf(r)}}

\* C27 (quiescent size equals content): when no call is in flight, size()
\* has not wrapped below zero and is the number of keys for which contains
\* is true: at least the number of keys for which contains has returned
\* true, and none of the keys for which it has returned false is counted.
QuiescentSizeIsContent ==
  Quiescent =>
    /\ total_size_ >= 0
    /\ Cardinality(Answered(TRUE)) <= total_size_
    /\ total_size_ <= Cardinality(CKeys \ Answered(FALSE))

\* the slots of the OCCUPIED buckets
OccupiedSlots == {pos \in DOMAIN buckets_ : is_occupied(buckets_[pos])}

\* C28 (bucket/entry bijection): every OCCUPIED bucket has an entry index
\* below size, no two OCCUPIED buckets share an entry index, every entry
\* index below size is that of an OCCUPIED bucket, and the number of
\* OCCUPIED buckets is size() and the length of the entry store.
BucketEntryBijection ==
  /\ \A pos \in OccupiedSlots : buckets_[pos].entry_index < size_
  /\ \A p, q \in OccupiedSlots :
       p # q => buckets_[p].entry_index # buckets_[q].entry_index
  /\ \A i \in 0 .. size_ - 1 :
       \E pos \in OccupiedSlots : buckets_[pos].entry_index = i
  /\ Cardinality(OccupiedSlots) = size_
  /\ Len(entries_) = size_

\* an erase has moved the last entry into the gap it made, in a map in
\* which some key sits away from its home slot
BucketEntryBijectionWitness ==
  /\ last.op = "erase" /\ last.flag
  /\ size_ >= 2
  /\ \E pos \in DOMAIN buckets_ :
       /\ is_tombstone(buckets_[pos])
       /\ buckets_[pos].entry_index < size_
  /\ \E pos \in OccupiedSlots :
       /\ buckets_[pos].distance >= 1
       /\ entries_[buckets_[pos].entry_index + 1].key \in Keys

\* C29 (metadata accuracy): every OCCUPIED bucket sits at the slot that is
\* its stored distance away from the home slot of the key of its entry (the
\* hash, remixed when the fingerprint is 0, modulo the capacity), carries
\* the fingerprint that a lookup of that key computes, and has a stored
\* distance below MAX_DISTANCE.
MetadataAccuracy ==
  \A pos \in OccupiedSlots :
    \E key \in {entries_[buckets_[pos].entry_index + 1].key} :
      /\ pos = ((probe_hash(key) % capacity_) + buckets_[pos].distance) % capacity_
      /\ buckets_[pos].fingerprint = fingerprint(key)
      /\ buckets_[pos].distance < MAX_DISTANCE

\* the key with fingerprint 0 sits away from its remixed home slot in a
\* map that has a deleted bucket
MetadataAccuracyWitness ==
  /\ \E pos \in DOMAIN buckets_ : is_tombstone(buckets_[pos])
  /\ \E pos \in OccupiedSlots :
       /\ entries_[buckets_[pos].entry_index + 1].key \in RemixKeys
       /\ buckets_[pos].distance >= 1

\* the probe loop of try_emplace(key, ...) on m as it is left when the loop
\* ends
GivenUp(m, key) ==
  insert_probe(m, probe_hash(key) % m.capacity, 0, fingerprint(key), key,
               DefaultValue)

\* the keys of the resident elements that the Robin-Hood swaps of that loop
\* took out of their entries
Displaced(m, key) ==
  {m.entries[i].key :
     i \in {j \in 1 .. Len(m.entries) : GivenUp(m, key).m.entries[j].key # m.entries[j].key}}

\* C30 (saturation retry): when the probe loop of an insert of a new key k
\* reaches MAX_DISTANCE after Robin-Hood swaps displaced resident elements,
\* the call rehashes to twice the capacity and returns with k and every
\* displaced key present with their own values, size() one larger and
\* inserted = true.
SaturationRetry ==
  [][(/\ last'.op = "insert"
      /\ ~contains(Map, last'.key)
      /\ ~LoadExceeded(size_, capacity_)
      /\ ~GivenUp(Map, last'.key).done
      /\ Displaced(Map, last'.key) # {})
       => /\ capacity_' = 2 * capacity_
          /\ last'.flag
          /\ size_' = size_ + 1
          /\ lookup(Map', last'.key) = <<last'.value>>
          /\ \A d \in Displaced(Map, last'.key) :
               lookup(Map', d) = lookup(Map, d)]_vars

\* C31 (non-zero fingerprints): no occupied bucket stores the fingerprint 0,
\* and a key whose raw fingerprint is 0 is in the map once its insert has
\* returned and is reported by find exactly when it is in the map.
NonZeroFingerprints ==
  /\ \A pos \in OccupiedSlots : buckets_[pos].fingerprint # 0
  /\ (last.op = "insert" /\ last.key \in RemixKeys) => contains(Map, last.key)
  /\ (last.op = "find" /\ last.key \in RemixKeys)
       => (last.flag <=> contains(Map, last.key))

\* the entry store but for the value of the entry at index
SameButValue(old, new, index) ==
  /\ Len(new) = Len(old)
  /\ \A i \in 1 .. Len(old) :
       /\ new[i].key = old[i].key
       /\ i # index + 1 => new[i].value = old[i].value

\* C32 (duplicate insert performs no mutation): a call of insert, emplace,
\* try_emplace or operator[] with a key that is in the map leaves the bucket
\* array, the entry store, size and capacity as they were, also when size is
\* at the load-factor threshold.  (map[key] = value: the assignment through
\* the returned reference writes the value of that one entry.)
DuplicateNoMutation ==
  [][(last'.op \in {"insert", "index"} /\ contains(Map, last'.key)) =>
       /\ buckets_' = buckets_
       /\ size_' = size_
       /\ capacity_' = capacity_
       /\ last'.op = "insert" => entries_' = entries_
       /\ last'.op = "index" => SameButValue(entries_, entries_', last'.index)]_vars

\* C33 (concurrent insert fails only on duplicates): an insert(k, v) that
\* returns false was preceded by the call of another insert of k, the only
\* way k can be present; an insert of a key that nobody else ever inserted
\* is not rejected.
InsertFailsOnlyOnDuplicate ==
  \A j \in Rets :
    (log[j].op = "insert" /\ ~log[j].flag) =>
      \E i \in Calls :
        /\ i < j
        /\ i # CallOf(j)
        /\ log[i].op = "insert"
        /\ log[i].key = log[j].key

\* C34 (erase compaction frame): an erase that removes the entry at index i
\* turns the bucket of that entry, and no other, into a tombstone; when i is
\* not the last index the last entry moves to index i and the one occupied
\* bucket whose entry_index was size - 1 gets entry_index i; every other
\* bucket and every other entry stays as it was and no bucket becomes empty.
EraseFrame ==
  [][(last'.op = "erase" /\ last'.flag) =>
       \E p \in OccupiedSlots :
         LET i == buckets_[p].entry_index
             movers == IF i = size_ - 1 THEN {}
                       ELSE {q \in OccupiedSlots : buckets_[q].entry_index = size_ - 1}
         IN
         /\ entries_[i + 1].key = last'.key
         /\ is_tombstone(buckets_'[p])
         /\ Cardinality(movers) = (IF i = size_ - 1 THEN 0 ELSE 1)
         /\ \A q \in movers :
              buckets_'[q] = [buckets_[q] EXCEPT !.entry_index = i]
         /\ \A q \in DOMAIN buckets_ \ (movers \cup {p}) : buckets_'[q] = buckets_[q]
         /\ size_' = size_ - 1
         /\ Len(entries_') = Len(entries_) - 1
         /\ i # size_ - 1 => entries_'[i + 1] = entries_[size_]
         /\ \A j \in 1 .. (size_ - 1) : j # i + 1 => entries_'[j] = entries_[j]
         /\ \A q \in DOMAIN buckets_ : ~is_empty(buckets_[q]) => ~is_empty(buckets_'[q])
         /\ DOMAIN buckets_' = DOMAIN buckets_]_vars

\* an erase has just removed an entry that was not the last one, from a map
\* that holds a key displaced from its home slot: the only deleted bucket
\* is the one this erase left, and its entry index is in use again
EraseFrameWitness ==
  /\ last.op = "erase"
  /\ last.flag
  /\ Cardinality({p \in DOMAIN buckets_ : is_tombstone(buckets_[p])}) = 1
  /\ \E p \in DOMAIN buckets_ :
       is_tombstone(buckets_[p]) /\ buckets_[p].entry_index < size_
  /\ \E q \in OccupiedSlots : buckets_[q].distance >= 1

\* a bucket array of capacity slots without a deleted bucket
CleanBuckets(buckets, capacity) ==
  /\ DOMAIN buckets = 0 .. (capacity - 1)
  /\ \A pos \in DOMAIN buckets : ~is_tombstone(buckets[pos])

\* C35 (rehash rebuilds clean metadata): the capacity never decreases; a
\* call that changes it ran rehash(new_capacity), whose result has exactly
\* new_capacity buckets, none of them deleted, and capacity new_capacity,
\* and so has the map when the call returns; when the call is an insert or
\* operator[] the new capacity is twice the old one.
RehashClean ==
  [][/\ capacity_' >= capacity_
     /\ capacity_' # capacity_ =>
          /\ \E rehashed \in {rehash(Map, capacity_')} :
               /\ rehashed.capacity = capacity_'
               /\ CleanBuckets(rehashed.buckets, capacity_')
          /\ CleanBuckets(buckets_', capacity_')
          /\ last'.op \in {"insert", "index"} => capacity_' = 2 * capacity_]_vars

\* an insert has just returned from a map that it rehashed on entry: the
\* map holds one element more than the load bound of the old capacity
RehashCleanWitness ==
  /\ last.op = "insert"
  /\ last.flag
  /\ capacity_ = 2 * INITIAL_CAPACITY
  /\ MAX_LOAD_DEN * (size_ - 1) = MAX_LOAD_NUM * INITIAL_CAPACITY

\* C36 (concurrent erase ordering): a thread reaches the CAS of erase only
\* through the store of valid = false to its entry; the CAS changes the
\* bucket word only in its occupied and tombstone bits; and when erase
\* returns true the bucket that the thread matched is not OCCUPIED any more.
EraseOrdering ==
  [][\A t \in Threads :
       LET th == threads[t]
           seg == segments_[SegOf(t)]
           seg1 == segments_'[SegOf(t)]
       IN
       /\ (threads'[t].pc = "erase_cas" /\ th.pc # "erase_cas") => th.pc = "erase_loop"
       /\ (threads'[t].pc = "erase_loop" /\ th.pc # "erase_loop")
            => /\ th.pc = "erase_invalidate"
               /\ seg1.entries = StoreValid(seg, th.entry_idx, FALSE).entries
       /\ (th.pc = "erase_cas" /\ InBuckets(seg, th.current_pos)
             /\ seg1.buckets[th.current_pos] # seg.buckets[th.current_pos])
            => seg1.buckets[th.current_pos] =
                 [seg.buckets[th.current_pos] EXCEPT !.occupied = FALSE,
                                                     !.tombstone = TRUE]
       /\ (th.op = "erase" /\ threads'[t].pc = "idle" /\ th.pc # "idle"
             /\ ~crashed' /\ log'[Len(log')].flag)
            => /\ th.pc = "erase_cas"
               /\ \A word \in BucketWords(seg1, th.current_pos) : ~is_occupied(word)]_vars

\* C37 (progress of concurrent operations): under fair scheduling every
\* call a thread has made returns, and no probe loop of a call runs past
\* MAX_DISTANCE steps.
Progress ==
  /\ \A t \in Threads : (threads[t].pc # "idle") ~> (threads[t].pc = "idle")
  /\ [](\A t \in Threads : threads[t].distance <= MAX_DISTANCE)

(***************************************************************************)
(* try_emplace step by step: the call up to the end of its probe loop, and *)
(* each round of rehash(capacity_ * 2) and retry, on a map whose Hash      *)
(* gives every key one hash                                                *)
(***************************************************************************)
\* the memory of the process holds a bucket array of at most MaxCapacity
\* buckets: a larger buckets_.resize throws std::bad_alloc
MaxCapacity == 2048

SameRange == [i \in 1 .. MAX_DISTANCE |-> <<SameBase + i, 1>>]

SameKeys == {SameBase + 1, SameBase + 2, SameBase + MAX_DISTANCE,
             SameBase + MAX_DISTANCE + 1, SameBase + MAX_DISTANCE + 2}

\* try_emplace from its load check to the end of its probe loop
try_emplace_probe(m, key, value) ==
  Bind(IF LoadExceeded(m.size, m.capacity)
       THEN rehash(m, m.capacity * 2) ELSE m,
       LAMBDA m1 : insert_probe(m1, probe_hash(key) % m1.capacity, 0,
                                fingerprint(key), key, value))

\* rehash(new_capacity) when buckets_.resize throws: entries_ has been moved
\* out, capacity_ is set, buckets_ is cleared and size_ is left as it was
rehash_throws(m, new_capacity) ==
  [buckets |-> NewBuckets(0), entries |-> << >>,
   size |-> m.size, capacity |-> new_capacity]

\* a call of insert in flight shows in last as "try_emplace", with the
\* number of probe loops that have ended without a place for the key
InFlight == last.op = "try_emplace"

\* insert(key, value) is called and runs until it returns or its probe loop
\* ends at MAX_DISTANCE
InsertCall(key, value) ==
  /\ nops < MaxOps
  /\ ~InFlight
  /\ \E r \in {try_emplace_probe(Map, key, value)} :
       /\ SetMap(r.m)
       /\ last' = IF r.done
                  THEN Call("insert", key, value, r.inserted, r.index)
                  ELSE Call("try_emplace", key, value, FALSE, 1)
  /\ constructed' = 1
  /\ nops' = nops + 1
  /\ fresh' = NoHistory
  /\ UNCHANGED cvars

\* the call in flight runs rehash(capacity_ * 2) and the recursive
\* try_emplace, until that returns or its probe loop ends at MAX_DISTANCE
InsertRetry ==
  /\ InFlight
  /\ IF 2 * capacity_ > MaxCapacity
     THEN /\ SetMap(rehash_throws(Map, 2 * capacity_))
          /\ last' = Call("bad_alloc", last.key, last.value, FALSE, last.index)
     ELSE \E r \in {try_emplace_probe(rehash(Map, 2 * capacity_),
                                      last.key, last.value)} :
            /\ SetMap(r.m)
            /\ last' = IF r.done
                       THEN Call("insert", last.key, last.value,
                                 r.inserted, r.index)
                       ELSE [last EXCEPT !.index = @ + 1]
  /\ constructed' = constructed + 1
  /\ UNCHANGED <<nops, fresh>>
  /\ UNCHANGED cvars

\* the driver stops at an exception that left the map without buckets
NextRetry ==
  \/ last.op = "new" /\ BatchInsert(SameRange)
  \/ last.op \notin {"new", "bad_alloc"}
       /\ \E key \in SameKeys, value \in Values : InsertCall(key, value)
  \/ last.op \notin {"new", "bad_alloc"} /\ ~InFlight
       /\ \E key \in SameKeys : Find(key)
  \/ InsertRetry

SpecRetry == Init /\ [][NextRetry]_vars

\* C38: an insert whose probe loop ended at MAX_DISTANCE and whose doubling
\* of the capacity did not relieve it (the probe loop of the retry ended at
\* MAX_DISTANCE too) surfaces an error to the caller as its next step; it
\* does not run rehash(2 * capacity_) and retry once more
RetryBounded ==
  [][(InFlight /\ last.index >= 2) => (last'.op = "bad_alloc")]_vars

(***************************************************************************)
(* Inserts and erases over keys that build one probe run: 2, 17 and 76     *)
(* share the home slot 12 of a table of 16 buckets, 9 has the home slot 13 *)
(***************************************************************************)
RunKeys == {2, 17, 76, 9}

NextRun ==
  \/ \E key \in RunKeys, value \in Values : Insert(key, value)
  \/ \E key \in RunKeys : Erase(key)
  \/ \E key \in RunKeys : Find(key)

SpecRun == Init /\ [][NextRun]_vars

\* C39 (Robin-Hood ordering): for every OCCUPIED bucket at slot p with
\* distance d > 0, if the slot before it (p - 1 mod capacity) is OCCUPIED,
\* the distance of that slot is at least d - 1
RobinHoodOrdering ==
  \A p \in OccupiedSlots :
    LET d == buckets_[p].distance
        before == buckets_[(p + capacity_ - 1) % capacity_]
    IN (d > 0 /\ is_occupied(before)) => before.distance >= d - 1

(***************************************************************************)
(* A map in steady use: keys come and go, at most MaxLive of them are in   *)
(* the map at a time.  The keys of ChurnKeys have the home slots 0 .. 15   *)
(* of a table of 16 buckets, in this order                                 *)
(***************************************************************************)
MaxLive == 2

ChurnKeys == <<52, 44, 51, 43, 50, 42, 49, 56, 41, 55, 40, 47, 2, 9, 60, 45>>

\* every call of the driver is an insert or an erase that succeeds
ChurnInserts == (nops + size_) \div 2

LiveKeys == {entries_[i].key : i \in 1 .. Len(entries_)}

\* insert(key, value) of the next key
ChurnInsert(value) ==
  /\ ChurnInserts < Len(ChurnKeys)
  /\ size_ < MaxLive
  /\ \E key \in {ChurnKeys[ChurnInserts + 1]} :
       \E r \in {emplace(Map, key, value)} :
         /\ SetMap(r.m)
         /\ last' = Call("insert", key, value, r.inserted, r.index)
         /\ constructed' = r.constructed
  /\ nops' = nops + 1
  /\ fresh' = NoHistory
  /\ UNCHANGED cvars

\* erase(key) of a key of the map
ChurnErase(key) ==
  /\ key \in LiveKeys
  /\ \E r \in {erase(Map, key)} :
       /\ SetMap(r.m)
       /\ last' = Call("erase", key, 0, r.removed = 1, 0)
  /\ constructed' = 0
  /\ nops' = nops + 1
  /\ fresh' = NoHistory
  /\ UNCHANGED cvars

NextChurn ==
  \/ \E value \in Values : ChurnInsert(value)
  \/ \E key \in LiveKeys : ChurnErase(key)

SpecChurn == Init /\ [][NextChurn]_vars

\* C40 (an EMPTY bucket always exists): after any sequence of inserts and
\* erases at least one bucket is EMPTY, OCCUPIED and TOMBSTONE buckets never
\* fill the whole table
EmptyBucketExists == \E pos \in DOMAIN buckets_ : is_empty(buckets_[pos])
====
